---- MODULE Spec2Model ----
(***************************************************************************)
(* Model of datafile/src/raw.rs: the in-memory DatafileBuffer (add_item,   *)
(* add_data, data_noerr), DatafileHeader::check / total_size, and          *)
(* Reader::check with the accessors that rely on a checked Reader.         *)
(*                                                                         *)
(* Indices are kept zero-based as in the source; TLA+ sequences are        *)
(* one-based, so element k of a Vec v is v[k + 1].                         *)
(***************************************************************************)
EXTENDS Integers, Sequences, FiniteSets, TLC

VARIABLES
    item_types,   \* DatafileBuffer.item_types : Vec<DfBufItemType>
    items,        \* DatafileBuffer.items      : Vec<DfBufItem>
    data,         \* DatafileBuffer.data       : Vec<Vec<u8>>
    call,         \* the last call made on the buffer, with its arguments
    ret,          \* the value that call returned
    passed,       \* history: the byte vectors handed to add_data, in call order
    header,       \* a DatafileHeader: hv.version and the fields of hr
    hres,         \* what DatafileHeader::check returned on it ("none": not called)
    corrupted,    \* TRUE once one field of a passing header has been replaced
    reader,       \* a Reader as Reader::new builds it, before check()
    pc,           \* the position inside Reader::check
    result,       \* what Reader::check ended with ("none": still running)
    stage,        \* the pass in which Reader::check ended
    overflowed,   \* TRUE once an arithmetic step of Reader::check left its type's range
    source,       \* the byte source behind read_data: the bytes after the seek base
    rd,           \* a call of Reader::read_data: position, locals, callee results, result
    cb,           \* the byte source handed to Reader::new: its stream and the calls it saw
    nw            \* a call of Reader::new: position, what it has read, result

bufVars == <<item_types, items, data, call, ret, passed>>
hdrVars == <<header, hres, corrupted>>
rdVars == <<reader, pc, result, stage, overflowed>>
dataVars == <<source, rd>>
newVars == <<cb, nw>>
vars == <<bufVars, hdrVars, rdVars, dataVars, newVars>>

(***************************************************************************)
(* Bounds of the model and the values the calls are made with.             *)
(***************************************************************************)
MaxBufItems == 3
MaxBufData == 2

TypeIdVals == {0, 1, 2}
IdVals == {0, 1, 2}
PayloadVals == {<< >>, <<7>>}
BlobVals == {<< >>, <<1>>}

Min(S) == CHOOSE x \in S : \A y \in S : x <= y

\* Vec::insert(index, element), index zero-based
VecInsert(v, index, e) ==
    SubSeq(v, 1, index) \o <<e>> \o SubSeq(v, index + 1, Len(v))

(***************************************************************************)
(* DatafileBuffer                                                          *)
(***************************************************************************)
get_item_type_index(its, type_id) ==
    LET hits == {i \in 1..Len(its) : type_id <= its[i].type_id}
    IN  IF hits = {}
        THEN [index |-> Len(its), found |-> FALSE]
        ELSE [index |-> Min(hits) - 1,
              found |-> type_id = its[Min(hits)].type_id]

\* get_item_index with the comparison `id < other_id`
get_item_index_strict(its, itms, item_type_index, item_type_found, id) ==
    IF ~item_type_found
    THEN IF item_type_index # Len(its)
         THEN [index |-> its[item_type_index + 1].start, found |-> FALSE]
         ELSE [index |-> Len(itms), found |-> FALSE]
    ELSE LET start == its[item_type_index + 1].start
             num   == its[item_type_index + 1].num
             hits  == {i \in start..(start + num - 1) : id < itms[i + 1].id}
         IN  IF hits = {}
             THEN [index |-> start + num, found |-> FALSE]
             ELSE [index |-> Min(hits), found |-> FALSE]

\* get_item_index that looks only for an equal id and otherwise answers the
\* end of the type's span
get_item_index_append(its, itms, item_type_index, item_type_found, id) ==
    IF ~item_type_found
    THEN IF item_type_index # Len(its)
         THEN [index |-> its[item_type_index + 1].start, found |-> FALSE]
         ELSE [index |-> Len(itms), found |-> FALSE]
    ELSE LET start == its[item_type_index + 1].start
             num   == its[item_type_index + 1].num
             hits  == {i \in start..(start + num - 1) : id = itms[i + 1].id}
         IN  IF hits = {}
             THEN [index |-> start + num, found |-> FALSE]
             ELSE [index |-> Min(hits), found |-> TRUE]

get_item_index(its, itms, item_type_index, item_type_found, id) ==
    IF ~item_type_found
    THEN IF item_type_index # Len(its)
         THEN [index |-> its[item_type_index + 1].start, found |-> FALSE]
         ELSE [index |-> Len(itms), found |-> FALSE]
    ELSE LET start == its[item_type_index + 1].start
             num   == its[item_type_index + 1].num
             hits  == {i \in start..(start + num - 1) : id <= itms[i + 1].id}
         IN  IF hits = {}
             THEN [index |-> start + num, found |-> FALSE]
             ELSE [index |-> Min(hits), found |-> id = itms[Min(hits) + 1].id]

\* the loop `for t in self.item_types.iter_mut().skip(type_index + 1)`
\* written as skip(type_index): the item's own type is shifted too
shift_starts_from_own(its, type_index) ==
    [k \in 1..Len(its) |->
        IF k > type_index
        THEN [its[k] EXCEPT !.start = its[k].start + 1]
        ELSE its[k]]

shift_starts(its, type_index) ==
    [k \in 1..Len(its) |->
        IF k > type_index + 1
        THEN [its[k] EXCEPT !.start = its[k].start + 1]
        ELSE its[k]]

\* add_item: the returned value and the buffer's fields after the call
add_item(its, itms, type_id, id, payload) ==
    LET t  == get_item_type_index(its, type_id)
        it == get_item_index(its, itms, t.index, t.found, id)
    IN  IF it.found
        THEN [ret |-> "Err", item_types |-> its, items |-> itms]
        ELSE LET its1 == IF ~t.found
                         THEN VecInsert(its, t.index,
                                  [type_id |-> type_id, start |-> it.index, num |-> 0])
                         ELSE its
                 its2 == [its1 EXCEPT ![t.index + 1].num = its1[t.index + 1].num + 1]
                 its3 == shift_starts(its2, t.index)
             IN  [ret        |-> "Ok",
                  item_types |-> its3,
                  items      |-> VecInsert(itms, it.index,
                                    [type_id |-> type_id, id |-> id, data |-> payload])]

\* add_data that puts the new blob in front of the others
add_data_front(d, bytes) ==
    [ret |-> Len(d), data |-> <<bytes>> \o d]

\* add_data: push, then len() - 1
add_data(d, bytes) ==
    LET d1 == Append(d, bytes)
    IN  [ret |-> Len(d1) - 1, data |-> d1]

data_noerr(d, index) == d[index + 1]

\* DatafileBuffer::new()
BufferNew ==
    /\ item_types = << >>
    /\ items = << >>
    /\ data = << >>

\* the parts of the state a specification does not use
NoBuffer ==
    /\ BufferNew
    /\ call = [op |-> "new"]
    /\ ret = "none"
    /\ passed = << >>

NoHeader ==
    /\ header = [version |-> 3]
    /\ hres = "none"
    /\ corrupted = FALSE

NoReader ==
    /\ reader = [version |-> 3]
    /\ pc = "none"
    /\ result = "none"
    /\ stage = "none"
    /\ overflowed = FALSE

\* no call of read_data: none of its locals is set
RdNone ==
    [pc |-> "none", index |-> 0, raw_data |-> << >>, data |-> << >>,
     seek |-> "none", alloc |-> "none", zlib |-> [tag |-> "NotCalled", v |-> << >>],
     res |-> "none"]

NoData ==
    /\ source = << >>
    /\ rd = RdNone

\* a byte source nothing has been called on, and no call of Reader::new
CbNone == [stream |-> << >>, pos |-> 0, fail_at |-> 0, calls |-> << >>]
NwNone ==
    [pc |-> "none", header |-> [version |-> 0], item_types |-> << >>,
     item_offsets |-> << >>, data_offsets |-> << >>, uncomp_data_sizes |-> << >>,
     items_raw |-> << >>, res |-> "none", returned |-> FALSE]

NoNew ==
    /\ cb = CbNone
    /\ nw = NwNone

InitBuffer ==
    /\ BufferNew
    /\ call = [op |-> "new"]
    /\ ret = "none"
    /\ passed = << >>
    /\ NoData
    /\ NoNew
    /\ NoHeader
    /\ NoReader

AddItem(type_id, id, payload) ==
    LET r == add_item(item_types, items, type_id, id, payload)
    IN  /\ r.ret = "Ok" => Len(items) < MaxBufItems
        /\ item_types' = r.item_types
        /\ items' = r.items
        /\ ret' = r.ret
        /\ call' = [op |-> "add_item", type_id |-> type_id, id |-> id, data |-> payload]
        /\ UNCHANGED <<data, passed, hdrVars, rdVars, dataVars, newVars>>

AddData(bytes) ==
    LET r == add_data(data, bytes)
    IN  /\ Len(data) < MaxBufData
        /\ data' = r.data
        /\ ret' = r.ret
        /\ call' = [op |-> "add_data", data |-> bytes]
        /\ passed' = Append(passed, bytes)
        /\ UNCHANGED <<item_types, items, hdrVars, rdVars, dataVars, newVars>>

NextBuffer ==
    \/ \E type_id \in TypeIdVals, id \in IdVals, payload \in PayloadVals :
          AddItem(type_id, id, payload)
    \/ \E bytes \in BlobVals : AddData(bytes)

SpecBuffer == InitBuffer /\ [][NextBuffer]_vars

(***************************************************************************)
(* Properties of the DatafileBuffer, checked under SpecBuffer.             *)
(***************************************************************************)
HasPair(itms, type_id, id) ==
    \E k \in 1..Len(itms) : itms[k].type_id = type_id /\ itms[k].id = id

\* C1: after any sequence of add_item calls, accepted or rejected, item_types
\* is strictly ascending by type_id, the spans tile the item list in that
\* order (first start 0, each next start = previous start + num, last
\* start + num = items.len()), every num is at least 1, and every item
\* inside a span carries the span's type_id.
C1_BufferSpansTile ==
    /\ \A k \in 1..(Len(item_types) - 1) :
          /\ item_types[k].type_id < item_types[k + 1].type_id
          /\ item_types[k + 1].start = item_types[k].start + item_types[k].num
    /\ IF item_types = << >>
       THEN Len(items) = 0
       ELSE /\ item_types[1].start = 0
            /\ item_types[Len(item_types)].start + item_types[Len(item_types)].num
                   = Len(items)
    /\ \A k \in 1..Len(item_types) :
          /\ item_types[k].num >= 1
          /\ \A i \in item_types[k].start..(item_types[k].start + item_types[k].num - 1) :
                /\ i + 1 \in 1..Len(items)
                /\ items[i + 1].type_id = item_types[k].type_id

\* a rejected add_item on a buffer with two types, one of them holding two items
C1_Witness ==
    /\ call.op = "add_item"
    /\ ret = "Err"
    /\ Len(item_types) = 2
    /\ Len(items) = 3

\* C2: add_item(type_id, id, payload) returns Err exactly when an item with
\* the same (type_id, id) is already in the buffer, and then item_types,
\* items and data are as before the call; otherwise it returns Ok and items
\* is the old list with one element (type_id, id, payload) inserted.
C2_AddItemResult ==
    [][call'.op = "add_item" =>
        LET dup == HasPair(items, call'.type_id, call'.id)
        IN  /\ ret' \in {"Ok", "Err"}
            /\ (ret' = "Err") <=> dup
            /\ ret' = "Err" =>
                  /\ item_types' = item_types
                  /\ items' = items
                  /\ data' = data
            /\ ret' = "Ok" =>
                  /\ Len(items') = Len(items) + 1
                  /\ \E k \in 0..Len(items) :
                        items' = VecInsert(items, k,
                                    [type_id |-> call'.type_id, id |-> call'.id,
                                     data |-> call'.data])
    ]_vars

\* a duplicate add_item was rejected on a buffer that holds several items
C2_Witness ==
    /\ call.op = "add_item"
    /\ ret = "Err"
    /\ Len(items) >= 2
    /\ \E k \in 1..Len(items) :
          /\ items[k].type_id = call.type_id
          /\ items[k].id = call.id
          /\ items[k].data # call.data

\* C3: inside each type's span the ids are strictly ascending, so no two
\* items of the buffer share a (type_id, id) pair, whatever the order of
\* insertion of types and ids.
C3_IdsAscendingInSpan ==
    /\ \A k \in 1..Len(item_types) :
          \A i \in item_types[k].start..(item_types[k].start + item_types[k].num - 2) :
              items[i + 1].id < items[i + 2].id
    /\ \A i, j \in 1..Len(items) :
          (items[i].type_id = items[j].type_id /\ items[i].id = items[j].id) => i = j

\* the last accepted add_item put a new type between two existing ones, after
\* an id was put in front of a larger id of the same type
C3_Witness ==
    /\ call.op = "add_item"
    /\ ret = "Ok"
    /\ Len(item_types) = 3
    /\ call.type_id = item_types[2].type_id

\* the last accepted add_item put an id between two ids of its type
C3_WitnessIds ==
    /\ call.op = "add_item"
    /\ ret = "Ok"
    /\ Len(item_types) = 1
    /\ Len(items) = 3
    /\ call.id = items[2].id

\* C4: the n-th add_data call returns n, whatever add_item calls come in
\* between, and from then on data_noerr(n) is the byte vector that call was
\* given.
C4_AddDataIndexStable ==
    /\ Len(data) = Len(passed)
    /\ \A n \in 0..(Len(passed) - 1) : data_noerr(data, n) = passed[n + 1]
    /\ call.op = "add_data" => ret = Len(passed) - 1

\* two different blobs were added, with add_item calls before and after
C4_Witness ==
    /\ Len(passed) = 2
    /\ passed[1] # passed[2]
    /\ call.op = "add_item"
    /\ Len(items) >= 2

(***************************************************************************)
(* DatafileHeader::check and total_size.                                   *)
(*                                                                         *)
(* The header's integers keep their 32-bit range.  total_size adds in u64, *)
(* where the sum of small multiples of 31-bit values cannot wrap, and then *)
(* narrows with to_i32(): the model carries the sum as Some(v) while it is *)
(* at most I32Max and as None once it is larger, which is all to_i32()     *)
(* tells apart.                                                            *)
(***************************************************************************)
I32Max == 2147483647
I32Min == -I32Max - 1

SizeOfI32 == 4
SizeOfDatafileItemType == 12
SizeOfDatafileHeaderRest == 28

\* Option<i32> / Result<i32, _>, and the outcome of a failed unwrap()
Some(v) == [tag |-> "Some", v |-> v]
None == [tag |-> "None", v |-> 0]
Panicked == [tag |-> "Panic", v |-> 0]

\* a + b for an Option a and a non-negative b, None above I32Max
AddU(a, b) ==
    IF a.tag = "None" \/ b.tag = "None" THEN None
    ELSE IF a.v > I32Max - b.v THEN None
    ELSE Some(a.v + b.v)

\* k * n for a small k > 0 and a non-negative n, None above I32Max
MulU(k, n) ==
    IF n > I32Max \div k THEN None ELSE Some(k * n)

\* fn u(val: i32) -> u64 { val.to_u64().unwrap() } fails on a negative value
UnwrapFails(h) ==
    \/ h.num_item_types < 0
    \/ h.num_items < 0
    \/ h.num_data < 0
    \/ h.size_items < 0
    \/ h.size_data < 0

\* total_size that never counts the uncompressed-size table
total_size_v3(h) ==
    IF UnwrapFails(h) THEN Panicked
    ELSE AddU(AddU(AddU(AddU(AddU(
            Some(SizeOfDatafileHeaderRest - SizeOfI32 * 2),
            MulU(SizeOfDatafileItemType, h.num_item_types)),
            MulU(SizeOfI32, h.num_items)),
            MulU(SizeOfI32, h.num_data)),
            Some(h.size_items)),
            Some(h.size_data))

\* DatafileHeader::total_size: Some(v) is Ok(v), None is Err(MalformedHeader)
total_size(h) ==
    IF UnwrapFails(h) THEN Panicked
    ELSE AddU(AddU(AddU(AddU(AddU(AddU(
            Some(SizeOfDatafileHeaderRest - SizeOfI32 * 2),
            MulU(SizeOfDatafileItemType, h.num_item_types)),
            MulU(SizeOfI32, h.num_items)),
            MulU(SizeOfI32, h.num_data)),
            IF h.version >= 4 THEN MulU(SizeOfI32, h.num_data) ELSE Some(0)),
            Some(h.size_items)),
            Some(h.size_data))

\* DatafileHeader::check
header_check(h) ==
    LET expected_size == total_size(h)
    IN  IF expected_size.tag = "Panic" THEN "Panic"
        ELSE IF expected_size.tag = "None" THEN "MalformedHeader"
        ELSE IF h.size # expected_size.v THEN "MalformedHeader"
        ELSE "Ok"

VersionVals == {3, 4, 5}
CountVals == {-1, 0, 1, I32Max}
SizeItemsVals == {-4, 0, 4}
SizeDataVals == {0, 1, I32Max - 20, I32Max}
SizeVals == {-1, 0, I32Max} \cup (20..(20 + 12 + 4 + 8 + 4 + 1))

HeaderFields == {"num_item_types", "num_items", "num_data", "size_items", "size_data"}
FieldVals(f) ==
    CASE f = "size_items" -> SizeItemsVals
      [] f = "size_data"  -> SizeDataVals
      [] OTHER            -> CountVals

InitHeader ==
    /\ header \in [version : VersionVals, size : SizeVals,
                   num_item_types : CountVals, num_items : CountVals,
                   num_data : CountVals, size_items : SizeItemsVals,
                   size_data : SizeDataVals]
    /\ hres = "none"
    /\ corrupted = FALSE
    /\ NoBuffer
    /\ NoReader
    /\ NoData
    /\ NoNew

\* a call of DatafileHeader::check on the header
HeaderCheck ==
    /\ hres = "none"
    /\ hres' = header_check(header)
    /\ UNCHANGED <<header, corrupted, bufVars, rdVars, dataVars, newVars>>

\* one count or size of a header that passed is replaced by another value,
\* and check is called again
HeaderCorrupt(f, v) ==
    /\ hres = "Ok"
    /\ ~corrupted
    /\ v # header[f]
    /\ header' = [header EXCEPT ![f] = v]
    /\ hres' = header_check(header')
    /\ corrupted' = TRUE
    /\ UNCHANGED <<bufVars, rdVars, dataVars, newVars>>

NextHeader ==
    \/ HeaderCheck
    \/ \E f \in HeaderFields : \E v \in FieldVals(f) : HeaderCorrupt(f, v)

SpecHeader == InitHeader /\ [][NextHeader]_vars

(***************************************************************************)
(* Properties of DatafileHeader::check, checked under SpecHeader.          *)
(***************************************************************************)
\* The claimed sum, compared with hr.size exactly: every integer is split
\* into 16-bit halves (v = Hi(v) * 65536 + Lo(v)), the halves are summed
\* apart and the carry is propagated once at the end.
Hi(v) == v \div 65536
Lo(v) == v % 65536

ClaimedSumIsSize(h) ==
    LET c  == IF h.version >= 4 THEN 8 ELSE 4
        lo == 20 + 12 * Lo(h.num_item_types) + 4 * Lo(h.num_items)
                 + c * Lo(h.num_data) + Lo(h.size_items) + Lo(h.size_data)
        hi == 12 * Hi(h.num_item_types) + 4 * Hi(h.num_items)
                 + c * Hi(h.num_data) + Hi(h.size_items) + Hi(h.size_data)
    IN  /\ Lo(lo) = Lo(h.size)
        /\ hi + Hi(lo) = Hi(h.size)

HeaderNonNegative(h) == ~UnwrapFails(h)

\* C6 as stated: check() returns Ok exactly when hr.size equals
\* 20 + 12*num_item_types + 4*num_items + 4*num_data (+ 4*num_data from
\* version 4 on) + size_items + size_data, and Err(MalformedHeader) in every
\* other case; replacing one count or size of a passing header by any other
\* 32-bit value makes check() return Err(MalformedHeader).
C6_CheckIffSumAnyFields ==
    /\ hres # "none" =>
          IF ClaimedSumIsSize(header) THEN hres = "Ok" ELSE hres = "MalformedHeader"
    /\ corrupted => hres = "MalformedHeader"

\* C6 amended: for a header whose counts and sizes are all non-negative,
\* check() returns Ok exactly when hr.size equals the sum (which then fits
\* in an i32) and Err(MalformedHeader) otherwise; replacing one count or
\* size of a passing header by any other non-negative value makes check()
\* return Err(MalformedHeader).
C6_CheckIffSumNonNegative ==
    HeaderNonNegative(header) =>
        /\ hres # "none" =>
              IF ClaimedSumIsSize(header) THEN hres = "Ok" ELSE hres = "MalformedHeader"
        /\ corrupted => hres = "MalformedHeader"

\* a version-4 header with every table non-empty passed
C6_Witness ==
    /\ hres = "Ok"
    /\ header.version = 4
    /\ header.num_item_types = 1
    /\ header.num_items = 1
    /\ header.num_data = 1
    /\ header.size_items = 4
    /\ header.size_data = 1

\* a header whose sum is exactly I32Max passed, and one whose sum is larger
\* was refused after a field of a passing header was replaced
C6_WitnessLarge ==
    /\ hres = "MalformedHeader"
    /\ corrupted
    /\ header.size = I32Max
    /\ header.size_data = I32Max - 20
    /\ header.num_items = 1

(***************************************************************************)
(* Reader::check and the accessors of a checked Reader.                    *)
(*                                                                         *)
(* i32 arithmetic keeps its width.  An i32 step whose exact result leaves  *)
(* [I32Min, I32Max] is an overflow: a build with overflow checks panics    *)
(* there, a build without them goes on with the wrapped value.  Both are   *)
(* outcomes of the model (the parameter `checked`).                        *)
(***************************************************************************)
DATAFILE_ITEMTYPE_ID_RANGE == 65536
U16Range == 65536
SizeOfDatafileItemHeader == 8

\* a - b in i32: the wrapped value and whether the exact value left the range
Sub32(a, b) ==
    IF b > 0 /\ a < I32Min + b
    THEN [val |-> (a - I32Min) + (-(b + I32Min)), ovf |-> TRUE]
    ELSE IF b < 0 /\ a > I32Max + b
    THEN [val |-> (a + I32Min) + (I32Min - b), ovf |-> TRUE]
    ELSE [val |-> a - b, ovf |-> FALSE]

\* a + b in i32, likewise
Add32(a, b) ==
    IF b > 0 /\ a > I32Max - b
    THEN [val |-> (a + I32Min) + (b + I32Min), ovf |-> TRUE]
    ELSE IF b < 0 /\ a < I32Min - b
    THEN [val |-> (a - I32Min) + (b - I32Min), ovf |-> TRUE]
    ELSE [val |-> a + b, ovf |-> FALSE]

\* `v as u16` of an i32
AsU16(v) == v % U16Range

\* bitmagic::relative_size_of_mult::<u8,i32>: a byte count as a count of
\* 32-bit words; the model applies it to multiples of the word size only
relative_size_of_mult(bytes) == bytes \div SizeOfI32

\* bitmagic::relative_size_of::<DatafileItemHeader,i32>()
relative_size_of_item_header == SizeOfDatafileItemHeader \div SizeOfI32

\* DatafileItemHeader::type_id(): the upper 16 bits of type_id_and_id
header_type_id(type_id_and_id) ==
    IF type_id_and_id >= 0
    THEN type_id_and_id \div U16Range
    ELSE U16Range + (type_id_and_id \div U16Range)

\* DatafileItemHeader::id(): the lower 16 bits of type_id_and_id
header_id(type_id_and_id) == type_id_and_id % U16Range

\* Reader::item_header(index)
item_header(r, index) ==
    LET base == relative_size_of_mult(r.item_offsets[index + 1])
    IN  [type_id_and_id |-> r.items_raw[base + 1],
         size           |-> r.items_raw[base + relative_size_of_item_header]]

Outcome(res, ovf) == [res |-> res, ovf |-> ovf]

\* the item-type pass of Reader::check, from descriptor i (one-based) on
RECURSIVE ItemTypeLoop(_, _, _, _, _)
ItemTypeLoop(r, i, expected_start, checked, ovf) ==
    IF i > Len(r.item_types)
    THEN IF expected_start # r.num_items
         THEN Outcome("Malformed", ovf)
         ELSE Outcome("Ok", ovf)
    ELSE LET t == r.item_types[i]
         IN  IF ~(0 <= t.type_id /\ t.type_id < DATAFILE_ITEMTYPE_ID_RANGE)
             THEN Outcome("Malformed", ovf)
             ELSE IF ~(0 <= t.num)
             THEN Outcome("Malformed", ovf)
             ELSE LET room == Sub32(r.num_items, t.start)
                  IN  IF room.ovf /\ checked
                      THEN Outcome("Panic", TRUE)
                      ELSE IF ~(t.num <= room.val)
                      THEN Outcome("Malformed", ovf \/ room.ovf)
                      ELSE IF t.start # expected_start
                      THEN Outcome("Malformed", ovf \/ room.ovf)
                      ELSE LET next == Add32(expected_start, t.num)
                           IN  IF next.ovf /\ checked
                               THEN Outcome("Panic", TRUE)
                               ELSE IF \E k \in 1..(i - 1) :
                                          t.type_id = r.item_types[k].type_id
                               THEN Outcome("Malformed", ovf \/ room.ovf \/ next.ovf)
                               ELSE ItemTypeLoop(r, i + 1, next.val, checked,
                                                 ovf \/ room.ovf \/ next.ovf)

ItemTypePass(r, checked) == ItemTypeLoop(r, 1, 0, checked, FALSE)

\* the item-offset pass, from item i (zero-based) on; offset is a usize that
\* never exceeds size_items when an addition starts, and the addends are
\* non-negative i32 values, so the usize additions stay in range
RECURSIVE ItemOffsetLoop(_, _, _)
ItemOffsetLoop(r, i, offset) ==
    IF i >= r.num_items
    THEN IF offset # r.size_items THEN "Malformed" ELSE "Ok"
    ELSE IF r.item_offsets[i + 1] < 0 THEN "Malformed"
    ELSE IF offset # r.item_offsets[i + 1] THEN "Malformed"
    ELSE LET offset1 == offset + SizeOfDatafileItemHeader
         IN  IF offset1 > r.size_items THEN "Malformed"
             ELSE IF item_header(r, i).size < 0 THEN "Malformed"
             ELSE LET offset2 == offset1 + item_header(r, i).size
                  IN  IF offset2 > r.size_items THEN "Malformed"
                      ELSE ItemOffsetLoop(r, i + 1, offset2)

ItemOffsetPass(r) == ItemOffsetLoop(r, 0, 0)

\* the data-offset pass, from data index i (zero-based) on
RECURSIVE DataOffsetLoop(_, _, _)
DataOffsetLoop(r, i, previous) ==
    IF i >= r.num_data THEN "Ok"
    ELSE IF r.uncomp_data_sizes.some /\ r.uncomp_data_sizes.v[i + 1] < 0
    THEN "Malformed"
    ELSE LET offset == r.data_offsets[i + 1]
         IN  IF offset < 0 \/ offset > r.size_data THEN "Malformed"
             ELSE IF previous > offset THEN "Malformed"
             ELSE DataOffsetLoop(r, i + 1, offset)

DataOffsetPass(r) == DataOffsetLoop(r, 0, 0)

\* the cross-reference pass with the last item of every span left out
CrossRefPassShort(r) ==
    IF \E i \in 1..Len(r.item_types) :
          \E k \in r.item_types[i].start..(r.item_types[i].start + r.item_types[i].num - 2) :
              header_type_id(item_header(r, k).type_id_and_id)
                  # AsU16(r.item_types[i].type_id)
    THEN "Malformed"
    ELSE "Ok"

\* the cross-reference pass: every failure it can find ends check the same
\* way, so the order of the two loops does not show in the result
CrossRefPass(r) ==
    IF \E i \in 1..Len(r.item_types) :
          \E k \in r.item_types[i].start..
                     (Add32(r.item_types[i].start, r.item_types[i].num).val - 1) :
              header_type_id(item_header(r, k).type_id_and_id)
                  # AsU16(r.item_types[i].type_id)
    THEN "Malformed"
    ELSE "Ok"

\* Reader::item(index): the type_id and id of the view
item(r, index) ==
    [type_id |-> header_type_id(item_header(r, index).type_id_and_id),
     id      |-> header_id(item_header(r, index).type_id_and_id)]

\* Reader::item_type_indices(type_id): the range start..end
item_type_indices(r, type_id) ==
    LET hits == {i \in 1..Len(r.item_types) : AsU16(r.item_types[i].type_id) = type_id}
    IN  IF hits = {}
        THEN [start |-> 0, end |-> 0]
        ELSE [start |-> r.item_types[Min(hits)].start,
              end   |-> r.item_types[Min(hits)].start + r.item_types[Min(hits)].num]

\* Reader::data_size_file(index): the span, and whether assert!(start <= end) holds
data_size_file(r, index) ==
    LET start == r.data_offsets[index + 1]
        end   == IF index < Len(r.data_offsets) - 1
                 THEN r.data_offsets[index + 2]
                 ELSE r.size_data
    IN  [start |-> start, end |-> end, asserted |-> start <= end]

\* The Reader that Reader::new builds from what it read: the header's counts
\* are the lengths of the tables, size_items the byte length of the item blob.
MkReader(version, tbl, offs, raw, doffs, size_data, uds) ==
    [version           |-> version,
     num_item_types    |-> Len(tbl),
     num_items         |-> Len(offs),
     num_data          |-> Len(doffs),
     size_items        |-> SizeOfI32 * Len(raw),
     size_data         |-> size_data,
     item_types        |-> tbl,
     item_offsets      |-> offs,
     data_offsets      |-> doffs,
     uncomp_data_sizes |-> [some |-> version = 4, v |-> uds],
     items_raw         |-> raw]

\* check() begins
CheckStart ==
    /\ pc = "item_types"
    /\ result = "none"
    /\ stage = "none"
    /\ overflowed = FALSE

CheckItemTypes ==
    /\ pc = "item_types"
    /\ \E checked \in BOOLEAN :
          LET o == ItemTypePass(reader, checked)
          IN  /\ pc' = IF o.res = "Ok" THEN "item_offsets" ELSE "done"
              /\ result' = IF o.res = "Ok" THEN "none" ELSE o.res
              /\ stage' = IF o.res = "Ok" THEN stage ELSE "item_types"
              /\ overflowed' = o.ovf
    /\ UNCHANGED <<reader, bufVars, hdrVars, dataVars, newVars>>

CheckItemOffsets ==
    /\ pc = "item_offsets"
    /\ LET o == ItemOffsetPass(reader)
       IN  /\ pc' = IF o = "Ok" THEN "data_offsets" ELSE "done"
           /\ result' = IF o = "Ok" THEN "none" ELSE o
           /\ stage' = IF o = "Ok" THEN stage ELSE "item_offsets"
    /\ UNCHANGED <<reader, overflowed, bufVars, hdrVars, dataVars, newVars>>

CheckDataOffsets ==
    /\ pc = "data_offsets"
    /\ LET o == DataOffsetPass(reader)
       IN  /\ pc' = IF o = "Ok" THEN "cross_ref" ELSE "done"
           /\ result' = IF o = "Ok" THEN "none" ELSE o
           /\ stage' = IF o = "Ok" THEN stage ELSE "data_offsets"
    /\ UNCHANGED <<reader, overflowed, bufVars, hdrVars, dataVars, newVars>>

CheckCrossRef ==
    /\ pc = "cross_ref"
    /\ pc' = "done"
    /\ result' = CrossRefPass(reader)
    /\ stage' = IF CrossRefPass(reader) = "Ok" THEN "end" ELSE "cross_ref"
    /\ UNCHANGED <<reader, overflowed, bufVars, hdrVars, dataVars, newVars>>

NextReader ==
    \/ CheckItemTypes
    \/ CheckItemOffsets
    \/ CheckDataOffsets
    \/ CheckCrossRef

(***************************************************************************)
(* The Readers the specifications start from.                              *)
(***************************************************************************)
MaxItems == 2
MaxData == 2

SeqsUpTo(S, n) == UNION {[1..k -> S] : k \in 0..n}

RECURSIVE SumNum(_, _)
\* the sum of the num fields of the first k descriptors
SumNum(tbl, k) == IF k = 0 THEN 0 ELSE SumNum(tbl, k - 1) + tbl[k].num

\* an item blob of items without payload, one per header word, and the
\* offsets of these items
PlainRaw(words) ==
    [j \in 1..(2 * Len(words)) |-> IF j % 2 = 1 THEN words[(j + 1) \div 2] ELSE 0]
PlainOffsets(n) == [i \in 1..n |-> SizeOfDatafileItemHeader * (i - 1)]

\* a table that overflows `num_items - start`
OverflowTable == <<[type_id |-> 0, start |-> I32Min, num |-> 0]>>
\* one type 0 holding all n items
OneTypeTable(n) ==
    IF n = 0 THEN << >> ELSE <<[type_id |-> 0, start |-> 0, num |-> n]>>

\* Readers whose item headers and type table agree or disagree: items of
\* type 0 and 65535 without payload, tables whose start fields are 0, the
\* sum of the nums before, or one more
XItemWords == {0, -U16Range}
XTypeIds == {0, U16Range - 1}
XTables(n) ==
    {tbl \in SeqsUpTo([type_id : XTypeIds, start : 0..n, num : 0..n], MaxItems) :
        \A i \in 1..Len(tbl) :
            tbl[i].start \in {0, SumNum(tbl, i - 1), SumNum(tbl, i - 1) + 1}}
XReaders ==
    {MkReader(3, tbl, PlainOffsets(Len(words)), PlainRaw(words), << >>, 0, << >>) :
        words \in SeqsUpTo(XItemWords, MaxItems), tbl \in XTables(MaxItems)}

\* Readers with any small type table over plain items of type 0
TTypeIds == {-1, 0, 1, DATAFILE_ITEMTYPE_ID_RANGE}
TStarts == {I32Min, -1, 0, 1}
TNums == {-1, 0, 1, 2}
TReaders ==
    {MkReader(3, tbl, PlainOffsets(n), PlainRaw([i \in 1..n |-> 0]), << >>, 0, << >>) :
        n \in 0..MaxItems,
        tbl \in SeqsUpTo([type_id : TTypeIds, start : TStarts, num : TNums], MaxItems)}

\* Readers with any small item-offset table and item blob
IOffsets == {-8, 0, 8, 12, 16}
IWords == {-4, 0, 4}
IReaders ==
    {MkReader(3, tbl, offs, raw, << >>, 0, << >>) :
        offs \in SeqsUpTo(IOffsets, MaxItems),
        raw \in SeqsUpTo(IWords, 2 * MaxItems + 1),
        tbl \in {OverflowTable} \cup {OneTypeTable(n) : n \in 0..MaxItems}}

\* Readers with any small data-offset table
DOffsets == {-1, 0, 1, 2, 3}
DSizes == {-1, 0, 5}
DReaders ==
    UNION {
        {MkReader(3, tbl, << >>, << >>, doffs, size_data, << >>) :
            size_data \in {0, 2}, tbl \in {OverflowTable, << >>}}
        \cup
        {MkReader(4, tbl, << >>, << >>, doffs, size_data, uds) :
            size_data \in {0, 2}, tbl \in {OverflowTable, << >>},
            uds \in [1..Len(doffs) -> DSizes]}
        : doffs \in SeqsUpTo(DOffsets, MaxData)}

InitReader ==
    /\ reader \in XReaders
    /\ CheckStart
    /\ NoBuffer
    /\ NoHeader
    /\ NoData
    /\ NoNew

InitCheck ==
    /\ reader \in TReaders \cup IReaders \cup DReaders
    /\ CheckStart
    /\ NoBuffer
    /\ NoHeader
    /\ NoData
    /\ NoNew

\* check() on Readers whose type table and item headers vary
SpecReader == InitReader /\ [][NextReader]_vars

\* check() on Readers whose tables vary one at a time
SpecCheck == InitCheck /\ [][NextReader]_vars

(***************************************************************************)
(* Properties of Reader::check.                                            *)
(***************************************************************************)
Checked == pc = "done"
ItemIndices(r) == 0..(r.num_items - 1)
RangeSet(rg) == rg.start..(rg.end - 1)

\* C5: on a Reader that check() accepted, every item index i lies in
\* item_type_indices(item(i).type_id); the ranges of the table's type_ids are
\* pairwise disjoint, cover 0..num_items exactly and hold only items of
\* that type_id; a type_id absent from the table has the empty range 0..0.
C5_ItemsInsideTheirTypeRange ==
    (Checked /\ result = "Ok") =>
        /\ \A i \in ItemIndices(reader) :
              i \in RangeSet(item_type_indices(reader, item(reader, i).type_id))
        /\ \A k, l \in 1..Len(reader.item_types) :
              k # l =>
                  RangeSet(item_type_indices(reader, reader.item_types[k].type_id))
                  \cap RangeSet(item_type_indices(reader, reader.item_types[l].type_id))
                      = {}
        /\ UNION {RangeSet(item_type_indices(reader, reader.item_types[k].type_id)) :
                      k \in 1..Len(reader.item_types)} = ItemIndices(reader)
        /\ \A k \in 1..Len(reader.item_types) :
              \A i \in RangeSet(item_type_indices(reader, reader.item_types[k].type_id)) :
                  item(reader, i).type_id = reader.item_types[k].type_id
        /\ \A type_id \in XTypeIds \cup {1} :
              (\A k \in 1..Len(reader.item_types) :
                    reader.item_types[k].type_id # type_id)
                  => item_type_indices(reader, type_id) = [start |-> 0, end |-> 0]

\* check() accepted a Reader with two non-empty types, the second of them
\* type 65535, whose items carry a negative type_id_and_id word
C5_Witness ==
    /\ Checked
    /\ result = "Ok"
    /\ Len(reader.item_types) = 2
    /\ reader.num_items = 2
    /\ reader.item_types[1].num = 1
    /\ reader.item_types[2].type_id = U16Range - 1
    /\ reader.items_raw[3] < 0

\* C7: check() ends with Ok or Err(Malformed) and no arithmetic step of it
\* leaves the range of its integer type, whatever the tables hold.
C7_NoOverflowInCheck ==
    /\ ~overflowed
    /\ Checked => result \in {"Ok", "Malformed"}

\* the defects of an item-type table that C8 lists
TableDefect(r) ==
    \/ \E i \in 1..Len(r.item_types) :
          \/ ~(0 <= r.item_types[i].type_id
                /\ r.item_types[i].type_id < DATAFILE_ITEMTYPE_ID_RANGE)
          \/ r.item_types[i].num < 0
          \/ r.item_types[i].start # SumNum(r.item_types, i - 1)
          \/ \E k \in 1..Len(r.item_types) :
                k # i /\ r.item_types[k].type_id = r.item_types[i].type_id
    \/ IF r.item_types = << >>
       THEN r.num_items # 0
       ELSE r.item_types[Len(r.item_types)].start
                # r.num_items - r.item_types[Len(r.item_types)].num

\* C8: check() returns Err(Malformed) for every item-type table with a
\* type_id outside [0, DATAFILE_ITEMTYPE_ID_RANGE), a repeated type_id, a
\* start that is not the sum of the nums before it, a negative num, or a
\* last start + num other than num_items; and the item-type pass accepts
\* every table with none of these.
C8_ItemTypePassDecides ==
    /\ (TableDefect(reader) /\ pc # "item_types") =>
          (Checked /\ stage = "item_types" /\ result = "Malformed")
    /\ ~TableDefect(reader) => stage # "item_types"

\* the item offsets tile the item blob: the first is 0, each next one is the
\* one before plus the header size plus that item's declared size, no
\* declared size is negative, and the end of the last item is size_items
RECURSIVE TilesFrom(_, _, _)
TilesFrom(r, i, at) ==
    IF i >= r.num_items THEN at = r.size_items
    ELSE /\ r.item_offsets[i + 1] = at
         /\ at + SizeOfDatafileItemHeader <= r.size_items
         /\ r.items_raw[(at \div SizeOfI32) + 2] >= 0
         /\ TilesFrom(r, i + 1,
                at + SizeOfDatafileItemHeader + r.items_raw[(at \div SizeOfI32) + 2])

OffsetsTile(r) == TilesFrom(r, 0, 0)

\* C9: check() returns Err(Malformed) unless the item offsets tile the item
\* blob exactly.
C9_MalformedUnlessOffsetsTile ==
    (Checked /\ ~OffsetsTile(reader)) => result = "Malformed"

\* the defects of the data tables that C10 lists
DataDefect(r) ==
    \E i \in 1..r.num_data :
        \/ r.data_offsets[i] < 0
        \/ r.data_offsets[i] > r.size_data
        \/ i > 1 /\ r.data_offsets[i] < r.data_offsets[i - 1]
        \/ r.uncomp_data_sizes.some /\ r.uncomp_data_sizes.v[i] < 0

\* C10: check() returns Err(Malformed) whenever a data offset is negative,
\* above size_data or below the one before it, or (version 4) an
\* uncompressed size is negative; and on every Reader that passed, for every
\* index < num_data, the span of data_size_file has start <= end and lies
\* within [0, size_data].
C10_DataOffsetsOrdered ==
    /\ (Checked /\ DataDefect(reader)) => result = "Malformed"
    /\ (Checked /\ result = "Ok") =>
          \A index \in 0..(reader.num_data - 1) :
              /\ data_size_file(reader, index).asserted
              /\ 0 <= data_size_file(reader, index).start
              /\ data_size_file(reader, index).start <= data_size_file(reader, index).end
              /\ data_size_file(reader, index).end <= reader.size_data

(***************************************************************************)
(* What check() does outside the overflow of `num_items - start`: in the   *)
(* runs that do not panic, the three statements above hold as they stand,  *)
(* and the overflow arises in the item-type pass only and never in an      *)
(* accepted Reader.                                                        *)
(***************************************************************************)
OverflowOnlyInItemTypePass ==
    overflowed => (Checked /\ stage = "item_types" /\ result \in {"Malformed", "Panic"})

ItemTypePassDecidesUnlessPanic ==
    result # "Panic" => C8_ItemTypePassDecides

MalformedUnlessOffsetsTileUnlessPanic ==
    result # "Panic" => C9_MalformedUnlessOffsetsTile

DataOffsetsOrderedUnlessPanic ==
    result # "Panic" => C10_DataOffsetsOrdered


(***************************************************************************)
(* Reader::read_data.  The byte source is the run of bytes after the seek  *)
(* base; a seek-read can fail in the transport, come up short, or give the *)
(* bytes asked for.  The allocation sink gives a buffer of the length      *)
(* asked for, or fails in the transport.  The decompressor is an outside   *)
(* primitive: it fails, or writes some bytes into the buffer it was given  *)
(* and reports how many.                                                   *)
(***************************************************************************)
MaxSource == 2
ByteVals == {0, 9}

\* CallbackReadError::on_eof
on_eof(e, df_err) == IF e = "EndOfFile" THEN df_err ELSE "Cb"

\* CallbackExt::seek_read_exact_owned(start, len) on a working transport
seek_read_exact_owned(src, start, len) ==
    IF start + len > Len(src)
    THEN [tag |-> "EndOfFile", v |-> << >>]
    ELSE [tag |-> "Ok", v |-> SubSeq(src, start + 1, start + len)]

\* Callback::alloc_data(length) when it succeeds
alloc_data(length) == [i \in 1..length |-> 0]

\* what zlib::uncompress(dst, src) can give for a destination of `cap` bytes
ZlibOutcomes(cap) ==
    {[tag |-> "Err", v |-> << >>]}
        \cup {[tag |-> "Ok", v |-> plain] : plain \in UNION {[1..k -> ByteVals] : k \in 0..cap}}

\* dst.iter_mut().set_from(src): element by element, as far as both reach
set_from(dst, src) ==
    [i \in 1..Len(dst) |-> IF i <= Len(src) THEN src[i] ELSE dst[i]]

\* the match on the decompressor's answer, with any reported length accepted
uncompress_result_any(z, data_len) ==
    IF z.tag = "Ok" THEN "Ok" ELSE "CompressionError"

\* the match on the decompressor's answer
uncompress_result(z, data_len) ==
    IF z.tag = "Ok" /\ Len(z.v) = data_len THEN "Ok"
    ELSE "CompressionError"

\* read_data(cb, index) up to the seek-read; `fails`: the transport fails
ReadDataSeek(index, fails) ==
    /\ pc = "done"
    /\ result = "Ok"
    /\ rd.pc = "idle"
    /\ index \in 0..(reader.num_data - 1)
    /\ LET span == data_size_file(reader, index)
           raw_data_len == span.end - span.start
           got == IF fails THEN [tag |-> "Cb", v |-> << >>]
                  ELSE seek_read_exact_owned(source, span.start, raw_data_len)
       IN  rd' = IF ~span.asserted
                 THEN [rd EXCEPT !.pc = "done", !.index = index, !.res = "Panic"]
                 ELSE IF got.tag = "Ok"
                 THEN [rd EXCEPT !.pc = "alloc", !.index = index,
                                 !.seek = "Ok", !.raw_data = got.v]
                 ELSE [rd EXCEPT !.pc = "done", !.index = index, !.seek = got.tag,
                                 !.res = on_eof(got.tag, "TooShort")]
    /\ UNCHANGED <<source, bufVars, hdrVars, rdVars, newVars>>

\* the length read_data allocates
data_len(r, call_) ==
    IF r.uncomp_data_sizes.some
    THEN r.uncomp_data_sizes.v[call_.index + 1]
    ELSE Len(call_.raw_data)

\* cb.alloc_data(data_len); `fails`: the transport fails
ReadDataAlloc(fails) ==
    /\ rd.pc = "alloc"
    /\ rd' = IF fails
             THEN [rd EXCEPT !.pc = "done", !.alloc = "Cb", !.res = "Cb"]
             ELSE [rd EXCEPT !.pc = IF reader.uncomp_data_sizes.some
                                    THEN "uncompress" ELSE "copy",
                             !.alloc = "Ok",
                             !.data = alloc_data(data_len(reader, rd))]
    /\ UNCHANGED <<source, bufVars, hdrVars, rdVars, newVars>>

\* Some(uds): zlib::uncompress into the buffer, and the match on its answer
ReadDataUncompress ==
    /\ rd.pc = "uncompress"
    /\ \E z \in ZlibOutcomes(Len(rd.data)) :
          rd' = [rd EXCEPT !.pc = "done", !.zlib = z,
                           !.data = set_from(rd.data, z.v),
                           !.res = uncompress_result(z, data_len(reader, rd))]
    /\ UNCHANGED <<source, bufVars, hdrVars, rdVars, newVars>>

\* None: the raw bytes are copied into the buffer
ReadDataCopy ==
    /\ rd.pc = "copy"
    /\ rd' = [rd EXCEPT !.pc = "done", !.data = set_from(rd.data, rd.raw_data),
                        !.res = "Ok"]
    /\ UNCHANGED <<source, bufVars, hdrVars, rdVars, newVars>>

NextData ==
    \/ NextReader
    \/ \E index \in 0..(MaxData - 1) : \E fails \in BOOLEAN : ReadDataSeek(index, fails)
    \/ \E fails \in BOOLEAN : ReadDataAlloc(fails)
    \/ ReadDataUncompress
    \/ ReadDataCopy

\* Readers of both versions with any small data-offset table, and sources
\* that hold all of the data region or less
RDOffsets == {0, 1, 2, 3}
RDSizes == {-1, 0, 2}
RDReaders ==
    UNION {
        {MkReader(3, << >>, << >>, << >>, doffs, size_data, << >>) :
            size_data \in {0, 2}}
        \cup
        {MkReader(4, << >>, << >>, << >>, doffs, size_data, uds) :
            size_data \in {0, 2}, uds \in [1..Len(doffs) -> RDSizes]}
        : doffs \in SeqsUpTo(RDOffsets, MaxData)}

InitData ==
    /\ reader \in RDReaders
    /\ CheckStart
    /\ source \in SeqsUpTo(ByteVals, MaxSource)
    /\ rd = [RdNone EXCEPT !.pc = "idle"]
    /\ NoBuffer
    /\ NoHeader
    /\ NoNew

\* check() and then one read_data on the Readers that passed
SpecData == InitData /\ [][NextData]_vars

(***************************************************************************)
(* Properties of Reader::read_data, checked under SpecData.                *)
(***************************************************************************)
ReadDataDone == rd.pc = "done"

\* the entry of the uncompressed-size table for the index read
Declared == reader.uncomp_data_sizes.v[rd.index + 1]

\* the raw span of the index read, taken from the source
RawSpan ==
    SubSeq(source, data_size_file(reader, rd.index).start + 1,
                   data_size_file(reader, rd.index).end)

\* C11: on a validated version-4 Reader read_data returns Ok only when the
\* decompressor succeeded and reported exactly the length the
\* uncompressed-size table declares for the index; when the decompressor
\* failed or reported another length the result is CompressionError; a
\* short seek-read gives TooShort and a transport failure (of the seek-read
\* or of the allocation) gives the transport error, never CompressionError.
\* On a validated version-3 Reader the decompressor is not called and the
\* data returned is the raw span byte for byte.
C11_ReadDataResult ==
    ReadDataDone =>
        /\ rd.res \in {"Ok", "CompressionError", "TooShort", "Cb"}
        /\ rd.seek = "EndOfFile" => rd.res = "TooShort"
        /\ (rd.seek = "Cb" \/ rd.alloc = "Cb") => rd.res = "Cb"
        /\ reader.version = 4 =>
              /\ rd.res = "Ok" => (rd.zlib.tag = "Ok" /\ Len(rd.zlib.v) = Declared)
              /\ (rd.zlib.tag = "Err" \/ (rd.zlib.tag = "Ok" /\ Len(rd.zlib.v) # Declared))
                    => rd.res = "CompressionError"
              /\ rd.res = "CompressionError" => rd.zlib.tag # "NotCalled"
        /\ reader.version = 3 =>
              /\ rd.zlib.tag = "NotCalled"
              /\ rd.res # "CompressionError"
              /\ (rd.seek = "Ok" /\ rd.alloc = "Ok") => (rd.res = "Ok" /\ rd.data = RawSpan)

\* a version-4 read whose decompressor reported fewer bytes than declared
C11_Witness ==
    /\ ReadDataDone
    /\ reader.version = 4
    /\ rd.zlib.tag = "Ok"
    /\ Len(rd.zlib.v) < Declared
    /\ Len(rd.raw_data) > 0
    /\ rd.res = "CompressionError"

\* a version-3 read that returned a span of two bytes
C11_WitnessCopy ==
    /\ ReadDataDone
    /\ reader.version = 3
    /\ rd.res = "Ok"
    /\ Len(rd.data) = 2


(***************************************************************************)
(* Reader::new.  The byte source is a stream of 32-bit words with a read   *)
(* position; `fail_at` is the number of the call at which its transport    *)
(* fails (0: never); `calls` is what the source has seen, in order, each   *)
(* call with its purpose and how it ended.                                 *)
(***************************************************************************)
HeaderWords == 9
HeaderVersionWords == 2
MagicDATA == 1
MagicOther == 0

\* DatafileHeaderVersion::check
hv_check(magic, version) ==
    IF magic # MagicDATA THEN "WrongMagic"
    ELSE IF version \notin {3, 4} THEN "UnsupportedVersion"
    ELSE "Ok"

\* DatafileHeaderRest::check
hr_check(h) ==
    IF \/ h.size < 0 \/ h.swaplen < 0 \/ h.num_item_types < 0 \/ h.num_items < 0
       \/ h.num_data < 0 \/ h.size_items < 0 \/ h.size_data < 0
       \/ h.size_items % SizeOfI32 # 0
    THEN "MalformedHeader"
    ELSE "Ok"

\* the header in the first words of what was read
header_of(w) ==
    [magic |-> w[1], version |-> w[2], size |-> w[3], swaplen |-> w[4],
     num_item_types |-> w[5], num_items |-> w[6], num_data |-> w[7],
     size_items |-> w[8], size_data |-> w[9]]

\* the transport fails at this call
TransportFails(c) == c.fail_at = Len(c.calls) + 1

\* the source after a call that moved the position by `moved` words
Called(c, op, out, moved) ==
    [c EXCEPT !.pos = c.pos + moved,
              !.calls = Append(c.calls, [op |-> op, out |-> out])]

\* DatafileHeader::read: what it returns, and how the read itself ended
header_read(c) ==
    LET avail == Len(c.stream) - c.pos
        read  == IF avail < HeaderWords THEN avail ELSE HeaderWords
        w     == SubSeq(c.stream, c.pos + 1, c.pos + read)
    IN  IF TransportFails(c) THEN [res |-> "Cb", out |-> "Cb", moved |-> 0, w |-> << >>]
        ELSE IF read < HeaderVersionWords
        THEN [res |-> "TooShortHeaderVersion", out |-> "Short", moved |-> read, w |-> w]
        ELSE IF hv_check(w[1], w[2]) # "Ok"
        THEN [res |-> hv_check(w[1], w[2]),
              out |-> IF read < HeaderWords THEN "Short" ELSE "Ok", moved |-> read, w |-> w]
        ELSE IF read < HeaderWords
        THEN [res |-> "TooShortHeader", out |-> "Short", moved |-> read, w |-> w]
        ELSE IF hr_check(header_of(w)) # "Ok"
        THEN [res |-> "MalformedHeader", out |-> "Ok", moved |-> read, w |-> w]
        ELSE [res |-> header_check(header_of(w)), out |-> "Ok", moved |-> read, w |-> w]

\* read_i32s(cb, len): read_exact_le_i32s_owned with EndOfFile turned into TooShort
read_i32s(c, len) ==
    IF TransportFails(c) THEN [res |-> "Cb", out |-> "Cb", moved |-> 0, w |-> << >>]
    ELSE IF c.pos + len > Len(c.stream)
    THEN [res |-> on_eof("EndOfFile", "TooShort"), out |-> "Short",
          moved |-> Len(c.stream) - c.pos, w |-> << >>]
    ELSE [res |-> "Ok", out |-> "Ok", moved |-> len,
          w |-> SubSeq(c.stream, c.pos + 1, c.pos + len)]

\* the words of a Vec<DatafileItemType> as records
item_types_of(w) ==
    [i \in 1..(Len(w) \div 3) |->
        [type_id |-> w[3 * i - 2], start |-> w[3 * i - 1], num |-> w[3 * i]]]

\* let header = try!(DatafileHeader::read(cb));
NewReadHeader ==
    /\ nw.pc = "header"
    /\ LET got == header_read(cb)
       IN  /\ cb' = Called(cb, "header", got.out, got.moved)
           /\ nw' = IF got.res = "Ok"
                    THEN [nw EXCEPT !.pc = "item_types", !.header = header_of(got.w)]
                    ELSE [nw EXCEPT !.pc = "done", !.res = got.res]
    /\ UNCHANGED <<bufVars, hdrVars, rdVars, dataVars>>

TableOps == {"item_types", "item_offsets", "data_offsets", "uncomp_data_sizes", "items"}

\* the number of words the read of a table asks for
TableLen(h, op) ==
    CASE op = "item_types"        -> 3 * h.num_item_types
      [] op = "item_offsets"      -> h.num_items
      [] op = "data_offsets"      -> h.num_data
      [] op = "uncomp_data_sizes" -> h.num_data
      [] op = "items"             -> h.size_items \div SizeOfI32

\* the read that follows the read of a table
AfterTable(h, op) ==
    CASE op = "item_types"        -> "item_offsets"
      [] op = "item_offsets"      -> "data_offsets"
      [] op = "data_offsets"      -> IF h.version = 4 THEN "uncomp_data_sizes" ELSE "items"
      [] op = "uncomp_data_sizes" -> "items"
      [] op = "items"             -> "set_seek_base"

\* let <table> = try!(read_i32s(cb, <len>));
NewReadTable(op) ==
    /\ nw.pc = op
    /\ LET got == read_i32s(cb, TableLen(nw.header, op))
       IN  /\ cb' = Called(cb, op, got.out, got.moved)
           /\ nw' = IF got.res # "Ok"
                    THEN [nw EXCEPT !.pc = "done", !.res = got.res]
                    ELSE [nw EXCEPT
                            !.pc = AfterTable(nw.header, op),
                            !.item_types =
                                IF op = "item_types" THEN item_types_of(got.w) ELSE @,
                            !.item_offsets = IF op = "item_offsets" THEN got.w ELSE @,
                            !.data_offsets = IF op = "data_offsets" THEN got.w ELSE @,
                            !.uncomp_data_sizes =
                                IF op = "uncomp_data_sizes" THEN got.w ELSE @,
                            !.items_raw = IF op = "items" THEN got.w ELSE @]
    /\ UNCHANGED <<bufVars, hdrVars, rdVars, dataVars>>

\* try!(cb.set_seek_base()); the Reader is built and check() begins
NewSetSeekBase ==
    /\ nw.pc = "set_seek_base"
    /\ IF TransportFails(cb)
       THEN /\ cb' = Called(cb, "set_seek_base", "Cb", 0)
            /\ nw' = [nw EXCEPT !.pc = "done", !.res = "Cb"]
            /\ UNCHANGED rdVars
       ELSE /\ cb' = Called(cb, "set_seek_base", "Ok", 0)
            /\ nw' = [nw EXCEPT !.pc = "check"]
            /\ reader' = MkReader(nw.header.version, nw.item_types, nw.item_offsets,
                                  nw.items_raw, nw.data_offsets, nw.header.size_data,
                                  nw.uncomp_data_sizes)
            /\ pc' = "item_types"
            /\ UNCHANGED <<result, stage, overflowed>>
    /\ UNCHANGED <<bufVars, hdrVars, dataVars>>

\* try!(result.check()); Ok(result)
NewReturn ==
    /\ nw.pc = "check"
    /\ pc = "done"
    /\ nw' = [nw EXCEPT !.pc = "done",
                        !.res = IF result = "Ok" THEN "Ok" ELSE result,
                        !.returned = (result = "Ok")]
    /\ UNCHANGED <<cb, bufVars, hdrVars, rdVars, dataVars>>

NextNew ==
    \/ NewReadHeader
    \/ \E op \in TableOps : NewReadTable(op)
    \/ NewSetSeekBase
    \/ NextReader
    \/ NewReturn


(***************************************************************************)
(* The streams Reader::new is run on: the serialised form of a small       *)
(* Reader, whole or cut short, with one part of the header changed or      *)
(* none, on a transport that fails at one call or never.                   *)
(***************************************************************************)
\* the words of a Vec<DatafileItemType>
words_of_item_types(tbl) ==
    [j \in 1..(3 * Len(tbl)) |->
        LET t == tbl[(j + 2) \div 3]
        IN  CASE j % 3 = 1 -> t.type_id
              [] j % 3 = 2 -> t.start
              [] OTHER     -> t.num]

Tampers == {"none", "magic", "version", "size", "negative"}

\* the file of Reader r, with one part of the header changed
FileOf(r, tamper) ==
    LET size == total_size(r).v
    IN  <<IF tamper = "magic" THEN MagicOther ELSE MagicDATA,
          IF tamper = "version" THEN 5 ELSE r.version,
          IF tamper = "size" THEN size + 1 ELSE size,
          0,
          r.num_item_types,
          IF tamper = "negative" THEN -1 ELSE r.num_items,
          r.num_data, r.size_items, r.size_data>>
        \o words_of_item_types(r.item_types)
        \o r.item_offsets
        \o r.data_offsets
        \o (IF r.version = 4 THEN r.uncomp_data_sizes.v ELSE << >>)
        \o r.items_raw

NTables ==
    {<< >>, OneTypeTable(1), OverflowTable, <<[type_id |-> 0, start |-> 1, num |-> 0]>>}
NData == {<<<< >>, 0>>, <<<<0>>, 1>>, <<<<1>>, 0>>}
NSizes == {-1, 1}
NReaders ==
    UNION {
        {MkReader(3, tbl, PlainOffsets(n), PlainRaw([i \in 1..n |-> 0]),
                  d[1], d[2], << >>) : n \in 0..1, tbl \in NTables}
        \cup
        {MkReader(4, tbl, PlainOffsets(n), PlainRaw([i \in 1..n |-> 0]),
                  d[1], d[2], uds) :
            n \in 0..1, tbl \in NTables, uds \in [1..Len(d[1]) -> NSizes]}
        : d \in NData}

\* the calls Reader::new can make on the source: six or seven
MaxCalls == 7

InitNew ==
    /\ \E r \in NReaders : \E tamper \in Tampers :
          LET file == FileOf(r, tamper)
          IN  \/ \E k \in 0..(Len(file) - 1) :
                    cb = [CbNone EXCEPT !.stream = SubSeq(file, 1, k)]
              \/ \E f \in 0..MaxCalls :
                    cb = [CbNone EXCEPT !.stream = file, !.fail_at = f]
    /\ nw = [NwNone EXCEPT !.pc = "header"]
    /\ NoBuffer
    /\ NoHeader
    /\ NoReader
    /\ NoData

\* Reader::new on these streams
SpecNew == InitNew /\ [][NextNew]_vars

(***************************************************************************)
(* Properties of Reader::new, checked under SpecNew.                       *)
(***************************************************************************)
NewDone == nw.pc = "done"

\* the calls Reader::new makes when nothing fails
NewOrder(version) ==
    <<"header", "item_types", "item_offsets", "data_offsets">>
        \o (IF version = 4 THEN <<"uncomp_data_sizes">> ELSE << >>)
        \o <<"items", "set_seek_base">>

CallsSeen == [i \in 1..Len(cb.calls) |-> cb.calls[i].op]
SeekBaseCalls == {i \in 1..Len(cb.calls) : cb.calls[i].op = "set_seek_base"}
ReadCalls == {i \in 1..Len(cb.calls) : cb.calls[i].op # "set_seek_base"}
SeekBaseDone == \E i \in SeekBaseCalls : cb.calls[i].out = "Ok"

\* the source sees the calls in the order of NewOrder, as far as they go
CallsInOrder ==
    LET order == NewOrder(IF nw.header.version = 4 THEN 4 ELSE 3)
    IN  /\ Len(CallsSeen) <= Len(order)
        /\ CallsSeen = SubSeq(order, 1, Len(CallsSeen))
        /\ Cardinality(SeekBaseCalls) <= 1

\* set_seek_base is called only after reads that all succeeded
SeekBaseAfterGoodReads ==
    \A i \in SeekBaseCalls : \A j \in 1..(i - 1) : cb.calls[j].out = "Ok"

\* a failure of the transport is the result
TransportErrorReturned ==
    NewDone => ((\E i \in 1..Len(cb.calls) : cb.calls[i].out = "Cb") => nw.res = "Cb")

\* a read that came up short, the header read included, gives TooShort
ShortReadGivesTooShort ==
    NewDone => ((\E i \in ReadCalls : cb.calls[i].out = "Short") => nw.res = "TooShort")

\* a Reader is returned only after set_seek_base and a check() that passed;
\* after set_seek_base every other outcome is Err(Malformed)
ReaderOnlyIfCheckPassed ==
    NewDone =>
        /\ nw.returned => (SeekBaseDone /\ result = "Ok" /\ nw.res = "Ok")
        /\ (SeekBaseDone /\ ~nw.returned) => nw.res = "Malformed"
        /\ nw.res \in {"Ok", "Malformed"} =>
              CallsSeen = NewOrder(nw.header.version)

\* C12: in every execution of Reader::new the byte source sees, in this
\* order, the header read, the reads of the item-type, item-offset and
\* data-offset tables, the read of the uncompressed-size table (version 4
\* only), the read of the item blob, and then exactly one set_seek_base;
\* set_seek_base is never called after a read that failed or came up short,
\* which gives TooShort or the transport error; a Reader is returned only if
\* check() passes after that call, and otherwise the result is
\* Err(Malformed) and no Reader exists.
C12_NewCallsAndResult ==
    /\ CallsInOrder
    /\ SeekBaseAfterGoodReads
    /\ TransportErrorReturned
    /\ ShortReadGivesTooShort
    /\ ReaderOnlyIfCheckPassed

(***************************************************************************)
(* What Reader::new does beside that: the order of the calls, the guard on *)
(* set_seek_base and the transport errors are as stated in every run; a    *)
(* short read of a table gives TooShort, a short read of the header one of *)
(* the header's own errors; and the results after set_seek_base are as     *)
(* stated in the runs in which check() does not panic.                     *)
(***************************************************************************)
ShortTableReadGivesTooShort ==
    NewDone =>
        \A i \in ReadCalls :
            cb.calls[i].out = "Short" =>
                IF cb.calls[i].op = "header"
                THEN nw.res \in {"TooShortHeaderVersion", "TooShortHeader",
                                 "WrongMagic", "UnsupportedVersion"}
                ELSE nw.res = "TooShort"

ReaderOnlyIfCheckPassedUnlessPanic ==
    result # "Panic" => ReaderOnlyIfCheckPassed

NewPanicsOnlyInCheck ==
    (NewDone /\ nw.res = "Panic") => (SeekBaseDone /\ overflowed /\ stage = "item_types")

====
